---- MODULE Spec2Model ----
(***************************************************************************)
(* Model of the role dashboard of src/main.py: the /roles command, the     *)
(* PaginationView (page state, Previous/Next buttons, page counter), the   *)
(* RoleDetailSelect drop-down and the create_progress_bar formatter.       *)
(*                                                                         *)
(* Roles are identified by their id; guild.roles lists them lowest rank    *)
(* first with the "@everyone" pseudo-role (id 0) in front, as the host     *)
(* library delivers it.  A fraction is the pair <<num, den>> (den > 0).    *)
(***************************************************************************)
EXTENDS Integers, Sequences, FiniteSets, TLC

\* ---------------------------------------------------------------- bounds
MaxRoles  == 26      \* largest number of non-everyone roles of a guild
NumUsers  == 2       \* users that may press the controls
MaxEvents == 3       \* interactions / deletions after the dashboard is sent
MaxDeletable == 2   \* the roles with ids 1..MaxDeletable may be deleted
MaxBarLen == 9       \* largest bar length tried
MaxMembers == 7      \* largest guild member count tried

\* ------------------------------------------------------ program constants
items_per_page == 10
SelectLimit    == 25
RowBarLength   == 8

EVERYONE == 0        \* id of the "@everyone" pseudo-role
Users    == 1..NumUsers
FILLED   == "filled" \* the full-block glyph
EMPTY    == "empty"  \* the light-shade glyph

VARIABLES
    pc,             \* position of the roles command / life of the dashboard
    user,           \* interaction.user.id of the command
    guild_roles,    \* interaction.guild.roles when the command runs
    live,           \* ids of the roles the guild holds now
    roles,          \* PaginationView.roles
    author_id,      \* PaginationView.author_id
    current_page,   \* PaginationView.current_page
    total_pages,    \* PaginationView.total_pages
    prev_disabled,  \* prev_btn.disabled
    next_disabled,  \* next_btn.disabled
    counter_label,  \* page_counter.label as <<shown page, shown total>>
    options,        \* values of the RoleDetailSelect entries
    panel,          \* the embed the public message shows (<<>>: none)
    out,            \* what was sent to the platform
    bar_in,         \* last arguments of create_progress_bar
    bar_out         \* last result of create_progress_bar

viewVars == <<roles, author_id, current_page, total_pages, prev_disabled,
              next_disabled, counter_label, options>>
barVars  == <<bar_in, bar_out>>
vars     == <<pc, user, guild_roles, live, roles, author_id, current_page,
              total_pages, prev_disabled, next_disabled, counter_label,
              options, panel, out, bar_in, bar_out>>

\* ---------------------------------------------------------------- helpers
Min(a, b) == IF a < b THEN a ELSE b
Max(a, b) == IF a > b THEN a ELSE b

Name(r) == IF r = EVERYONE THEN "@everyone" ELSE "role"

\* guild.roles of a guild with n roles besides @everyone
GuildOf(n) == [i \in 1..(n + 1) |-> i - 1]

Range(s) == {s[i] : i \in 1..Len(s)}

RECURSIVE Filter(_)
\* [r for r in roles if r.name != "@everyone"]
Filter(s) ==
    IF s = <<>> THEN <<>>
    ELSE IF Name(Head(s)) /= "@everyone" THEN <<Head(s)>> \o Filter(Tail(s))
         ELSE Filter(Tail(s))

\* list.reverse()
Reverse(s) == [i \in 1..Len(s) |-> s[Len(s) + 1 - i]]

\* math.ceil(a / b) for a >= 0, b > 0
CeilDiv(a, b) == (a + b - 1) \div b

\* Python's normalisation of a slice bound
SliceBound(i, n) == IF i < 0 THEN Max(0, i + n) ELSE Min(i, n)

\* s[a:b] of Python (0-based, end exclusive, clipped)
PySlice(s, a, b) == SubSeq(s, SliceBound(a, Len(s)) + 1, SliceBound(b, Len(s)))

\* variant: the slice ends one role early
PageSliceShort(rs, page) ==
    PySlice(rs, page * items_per_page, page * items_per_page + items_per_page - 1)

\* page_roles of generate_dashboard_embed
PageSlice(rs, page) ==
    PySlice(rs, page * items_per_page, page * items_per_page + items_per_page)

\* variant: no limit of 25 entries
SelectOptionsNoLimit(rs) == Filter(rs)

\* the options RoleDetailSelect.__init__ builds
SelectOptions(rs) == Filter(PySlice(rs, 0, SelectLimit))

\* update_buttons
PrevDisabled(page)        == page = 0
NextDisabled(page, total) == page = total - 1
Label(page, total)        == <<page + 1, total>>

\* variant: no owner check
AuthorizedAny(u) == TRUE

\* the owner check of prev_btn / next_btn
Authorized(u) == u = author_id

\* generate_dashboard_embed: self.roles[0] raises on an empty list
EmbedFaults(rs) == Len(rs) = 0

\* the embed generate_dashboard_embed returns: the rows of the page, the
\* TOTAL ROLES field and the HIGHEST ROLE field
Embed(rs, page) == [rows |-> PageSlice(rs, page), total |-> Len(rs),
                    highest |-> rs[1]]

\* what the public message shows: the embed and the view's controls
Message(e, pd, nd, lbl) == [embed |-> e, prev_disabled |-> pd,
                            next_disabled |-> nd, label |-> lbl]
NoMessage == <<>>

\* guild.get_role(role_id) finds the role
RoleExists(v) == v \in live

\* ------------------------------------------------------ platform requests
NoOutput == [deferred |-> FALSE, plain |-> 0, public |-> 0, edits |-> 0,
             rejections |-> [u \in Users |-> 0],
             details |-> [u \in Users |-> 0], faults |-> 0]

Defer(o)        == [o EXCEPT !.deferred = TRUE]
FollowupPlain(o)  == [o EXCEPT !.plain = @ + 1]
FollowupView(o) == [o EXCEPT !.public = @ + 1]
\* variant: the page change sends a new public message
EditMessageResend(o) == [o EXCEPT !.public = @ + 1]
EditMessage(o)  == [o EXCEPT !.edits = @ + 1]
Reject(o, u)    == [o EXCEPT !.rejections[u] = @ + 1]
Detail(o, u)    == [o EXCEPT !.details[u] = @ + 1]
Fault(o)        == [o EXCEPT !.faults = @ + 1]

RECURSIVE SumOver(_, _)
SumOver(f, S) == IF S = {} THEN 0
                 ELSE LET x == CHOOSE y \in S : TRUE
                      IN f[x] + SumOver(f, S \ {x})

Deleted == Range(guild_roles) \ live
Events  == out.edits + out.faults + SumOver(out.rejections, Users)
           + SumOver(out.details, Users) + Cardinality(Deleted)

\* ------------------------------------------------------------- formatter
Rep(g, n) == [i \in 1..Max(n, 0) |-> g]

Fractions == {<<m, t>> : m \in 0..MaxMembers, t \in 1..MaxMembers}
UnitFractions == {p \in Fractions : p[1] <= p[2]}

\* int(x) of a non-negative quotient a / b
IntOf(a, b) == a \div b

\* round(a / b) of Python 3 (ties to even), a >= 0, b > 0
RoundOf(a, b) ==
    LET q == a \div b
        r == a % b
    IN IF 2 * r < b THEN q
       ELSE IF 2 * r > b THEN q + 1
       ELSE IF q % 2 = 0 THEN q ELSE q + 1

\* variant: the filled count is rounded
create_progress_bar_rounded(percentage, length) ==
    LET filled == RoundOf(length * percentage[1], percentage[2])
        empty  == length - filled
    IN Rep(FILLED, filled) \o Rep(EMPTY, empty)

create_progress_bar(percentage, length) ==
    LET filled == IntOf(length * percentage[1], percentage[2])
        empty  == length - filled
    IN Rep(FILLED, filled) \o Rep(EMPTY, empty)

\* perc of generate_dashboard_embed
Perc(members, total_members) ==
    IF total_members > 0 THEN <<members, total_members>> ELSE <<0, 1>>

\* ------------------------------------------------------------------ Init
Guilds == {<<>>} \cup {GuildOf(n) : n \in 0..MaxRoles}

NoBar == [percentage |-> <<0, 1>>, length |-> 0, row |-> FALSE]

InitView ==
    /\ roles = <<>>
    /\ author_id = 0
    /\ current_page = 0
    /\ total_pages = 0
    /\ prev_disabled = FALSE
    /\ next_disabled = FALSE
    /\ counter_label = <<1, 1>>
    /\ options = <<>>

Init ==
    /\ pc = "invoked"
    /\ user \in Users
    /\ guild_roles \in Guilds
    /\ live = Range(guild_roles)
    /\ InitView
    /\ panel = NoMessage
    /\ out = NoOutput
    /\ bar_in = NoBar
    /\ bar_out = <<>>

\* --------------------------------------------------- the roles command
\* await interaction.response.defer()
roles_defer ==
    /\ pc = "invoked"
    /\ out' = Defer(out)
    /\ pc' = "deferred"
    /\ UNCHANGED <<user, guild_roles, live, viewVars, panel, barVars>>

\* roles = interaction.guild.roles; if not roles: send the plain message
roles_empty ==
    /\ pc = "deferred"
    /\ guild_roles = <<>>
    /\ out' = FollowupPlain(out)
    /\ pc' = "done"
    /\ UNCHANGED <<user, guild_roles, live, viewVars, panel, barVars>>

\* view = PaginationView(roles, interaction.user.id)
roles_construct ==
    /\ pc = "deferred"
    /\ guild_roles /= <<>>
    /\ roles' = Reverse(Filter(guild_roles))
    /\ author_id' = user
    /\ current_page' = 0
    /\ total_pages' = CeilDiv(Len(roles'), items_per_page)
    /\ options' = SelectOptions(roles')
    /\ prev_disabled' = PrevDisabled(current_page')
    /\ next_disabled' = NextDisabled(current_page', total_pages')
    /\ counter_label' = Label(current_page', total_pages')
    /\ pc' = "constructed"
    /\ UNCHANGED <<user, guild_roles, live, panel, out, barVars>>

\* embed = view.generate_dashboard_embed(guild) raises
roles_render_fault ==
    /\ pc = "constructed"
    /\ EmbedFaults(roles)
    /\ out' = Fault(out)
    /\ pc' = "faulted"
    /\ UNCHANGED <<user, guild_roles, live, viewVars, panel, barVars>>

\* embed = view.generate_dashboard_embed(guild); followup.send(embed, view)
roles_send ==
    /\ pc = "constructed"
    /\ ~EmbedFaults(roles)
    /\ panel' = Message(Embed(roles, current_page), prev_disabled,
                        next_disabled, counter_label)
    /\ out' = FollowupView(out)
    /\ pc' = "rendered"
    /\ UNCHANGED <<user, guild_roles, live, viewVars, barVars>>

\* ------------------------------------------------------ the controls
\* a button handler after its owner check: move by delta, update_buttons,
\* edit the message with a fresh embed
TurnPage(delta) ==
    /\ current_page' = current_page + delta
    /\ prev_disabled' = PrevDisabled(current_page')
    /\ next_disabled' = NextDisabled(current_page', total_pages)
    /\ counter_label' = Label(current_page', total_pages)
    /\ IF EmbedFaults(roles)
       THEN /\ out' = Fault(out)
            /\ panel' = panel
       ELSE /\ out' = EditMessage(out)
            /\ panel' = Message(Embed(roles, current_page'), prev_disabled',
                                next_disabled', counter_label')
    /\ UNCHANGED <<roles, author_id, total_pages, options>>

\* the "This isn't your dashboard." reply
RejectPress(u) ==
    /\ out' = Reject(out, u)
    /\ UNCHANGED <<viewVars, panel>>

prev_btn(u) ==
    /\ pc = "rendered"
    /\ ~prev_disabled
    /\ Events < MaxEvents
    /\ IF ~Authorized(u) THEN RejectPress(u) ELSE TurnPage(-1)
    /\ UNCHANGED <<pc, user, guild_roles, live, barVars>>

next_btn(u) ==
    /\ pc = "rendered"
    /\ ~next_disabled
    /\ Events < MaxEvents
    /\ IF ~Authorized(u) THEN RejectPress(u) ELSE TurnPage(1)
    /\ UNCHANGED <<pc, user, guild_roles, live, barVars>>

\* RoleDetailSelect.callback with self.values[0] = str(v)
select_callback(u, v) ==
    /\ pc = "rendered"
    /\ v \in Range(options)
    /\ Events < MaxEvents
    /\ IF RoleExists(v)
       THEN out' = Detail(out, u)
       ELSE out' = Fault(out)       \* role is None: role.name raises
    /\ UNCHANGED <<pc, user, guild_roles, live, viewVars, panel, barVars>>

\* a role is deleted from the guild while the dashboard is shown
delete_role(r) ==
    /\ pc = "rendered"
    /\ r \in live \cap (1..MaxDeletable)
    /\ Events < MaxEvents
    /\ live' = live \ {r}
    /\ UNCHANGED <<pc, user, guild_roles, viewVars, panel, out, barVars>>

\* the view's timeout elapses: the platform delivers nothing further
on_timeout ==
    /\ pc = "rendered"
    /\ pc' = "expired"
    /\ UNCHANGED <<user, guild_roles, live, viewVars, panel, out, barVars>>

Next ==
    \/ roles_defer
    \/ roles_empty
    \/ roles_construct
    \/ roles_render_fault
    \/ roles_send
    \/ \E u \in Users : prev_btn(u)
    \/ \E u \in Users : next_btn(u)
    \/ \E u \in Users : \E v \in Range(options) : select_callback(u, v)
    \/ \E r \in 1..MaxDeletable : delete_role(r)
    \/ on_timeout

Spec == Init /\ [][Next]_vars

\* ------------------------------------- the formatter on bounded inputs
mainVars == <<pc, user, guild_roles, live, viewVars, panel, out>>

InitBar ==
    /\ pc = "invoked"
    /\ user = 1
    /\ guild_roles = GuildOf(1)
    /\ live = Range(guild_roles)
    /\ InitView
    /\ panel = NoMessage
    /\ out = NoOutput
    /\ bar_in = NoBar
    /\ bar_out = <<>>

\* create_progress_bar(percentage, length)
progress_bar_call(p, length) ==
    /\ bar_in' = [percentage |-> p, length |-> length, row |-> FALSE]
    /\ bar_out' = create_progress_bar(p, length)
    /\ UNCHANGED mainVars

\* the bar of one row of the table: format_ansi_row(name, n, perc, hoist)
format_ansi_row_call(members, total_members) ==
    /\ bar_in' = [percentage |-> Perc(members, total_members),
                  length |-> RowBarLength, row |-> TRUE]
    /\ bar_out' = create_progress_bar(Perc(members, total_members), RowBarLength)
    /\ UNCHANGED mainVars

NextBar ==
    \/ \E p \in UnitFractions : \E length \in 0..MaxBarLen :
          progress_bar_call(p, length)
    \/ \E total_members \in 0..MaxMembers : \E members \in 0..total_members :
          format_ansi_row_call(members, total_members)

SpecBar == InitBar /\ [][NextBar]_vars

\* ======================================================================
\* Properties
\* ======================================================================
\* a PaginationView has been constructed
HasView == pc \in {"constructed", "rendered", "expired", "faulted"}
\* the dashboard message has been sent
Shown == pc \in {"rendered", "expired"}
\* number of non-everyone roles of the guild the command ran in
N == Len(Filter(guild_roles))

\* total_pages() as section 4.2 of the specification defines it:
\* ceil(n / page_size), minimum 1
TotalPagesOf(n) ==
    IF n = 0 THEN 1
    ELSE CHOOSE k \in 1..n : k * items_per_page >= n /\ (k - 1) * items_per_page < n

\* C1: in every state from the construction of a dashboard on, for any
\* number N >= 0 of non-everyone roles, 0 <= page_index < ceil(N/10)
\* (page_index < ceil(N/10) is 10 * page_index < N).
C1_PageIndexInRange ==
    HasView => /\ 0 <= current_page
               /\ current_page * items_per_page < Len(roles)

\* C2: a Previous/Next activation by a user other than the creator leaves
\* page_index, both controls' enablement, the counter label and the public
\* message as they were, issues no edit, and sends exactly one private
\* rejection notice, to that user; the whole view is unchanged, so the
\* owner's later activations act as if the press had not happened.
C2_NonOwnerRejected ==
    [][\A u \in Users :
          ((prev_btn(u) \/ next_btn(u)) /\ u /= author_id) =>
              /\ UNCHANGED <<current_page, prev_disabled, next_disabled,
                             counter_label, panel, viewVars, pc>>
              /\ out'.edits = out.edits
              /\ out'.public = out.public
              /\ out'.plain = out.plain
              /\ out'.faults = out.faults
              /\ out'.details = out.details
              /\ out'.rejections[u] = out.rejections[u] + 1
              /\ \A w \in Users \ {u} : out'.rejections[w] = out.rejections[w]
      ]_vars

\* a non-owner was rejected and the owner (before or after) turned a page
C2_Witness ==
    /\ pc = "rendered"
    /\ \E u \in Users : u /= author_id /\ out.rejections[u] = 1
    /\ out.edits >= 1
    /\ current_page = 1

\* C3: in a guild with 0 non-everyone roles (role list empty, or only
\* "@everyone") the command sends exactly one plain message, constructs no
\* dashboard, sends no controls and does not fault.
C3_EmptyGuildPlainMessage ==
    N = 0 => /\ ~HasView
             /\ out.public = 0
             /\ out.faults = 0
             /\ out.plain <= 1
             /\ (pc \notin {"invoked", "deferred"} => out.plain = 1)

\* C4: from construction on, Previous is disabled exactly when
\* page_index = 0 and Next exactly when page_index = total_pages - 1
\* (total_pages = ceil(N/10), minimum 1), for every N >= 0; both are the
\* functions of page_index and total_pages that a recomputation gives.
C4_ControlsMatchPage ==
    HasView => /\ prev_disabled <=> (current_page = 0)
               /\ next_disabled <=> (current_page = TotalPagesOf(Len(roles)) - 1)
               /\ prev_disabled = PrevDisabled(current_page)
               /\ next_disabled = NextDisabled(current_page, total_pages)

\* C5: for every N >= 0 the dashboard's total page count is
\* max(1, ceil(N/10)); it is 1 when N = 0.
C5_TotalPages ==
    HasView => total_pages = TotalPagesOf(Len(roles))

\* C6: selecting an entry whose role the guild no longer holds sends the
\* selecting user one private notice and raises no fault; page_index and
\* the controls are unchanged.
C6_StaleRoleNotice ==
    [][\A u \in Users : \A v \in Range(options) :
          (select_callback(u, v) /\ v \notin live) =>
              /\ out'.faults = out.faults
              /\ out'.details[u] + out'.rejections[u]
                    = out.details[u] + out.rejections[u] + 1
              /\ UNCHANGED viewVars
      ]_vars

RECURSIVE ConcatPages(_, _, _)
\* the slices of pages p .. last, one after the other
ConcatPages(rs, p, last) ==
    IF p > last THEN <<>>
    ELSE PageSlice(rs, p) \o ConcatPages(rs, p + 1, last)

\* C7: for N >= 1, roles is the guild's non-everyone roles highest rank
\* first; the slice of each page p in 0..total_pages-1 holds at most 10
\* roles and is roles[10p .. 10p+9] clipped to N; the slices of all pages in
\* order give roles, each role once; the message shows the slice of the
\* current page.
C7_PageSlices ==
    (HasView /\ Len(roles) >= 1) =>
      /\ Len(roles) = N
      /\ \A i \in 1..N : roles[i] = guild_roles[Len(guild_roles) + 1 - i]
      /\ \A i, j \in 1..N : i < j => roles[i] > roles[j]
      /\ \A p \in 0..(total_pages - 1) :
            LET sl == PageSlice(roles, p)
            IN /\ Len(sl) <= items_per_page
               /\ Len(sl) >= 1
               /\ Len(sl) = Min(items_per_page, N - items_per_page * p)
               /\ \A i \in 1..Len(sl) : sl[i] = roles[items_per_page * p + i]
      /\ ConcatPages(roles, 0, total_pages - 1) = roles
      /\ Shown =>
            /\ current_page \in 0..(total_pages - 1)
            /\ Len(panel.embed.rows) = Min(items_per_page, N - items_per_page * current_page)
            /\ \A i \in 1..Len(panel.embed.rows) :
                  panel.embed.rows[i] = N + 1 - (items_per_page * current_page + i)
      /\ (N = 23 => total_pages = 3)

\* 23 roles, third page shown: ranks 21-23
C7_Witness ==
    /\ pc = "rendered"
    /\ Len(roles) = 23
    /\ current_page = 2
    /\ panel.embed.rows = <<3, 2, 1>>
    /\ next_disabled

\* number of messages of any kind sent so far
Sent == out.plain + out.public + out.edits + SumOver(out.rejections, Users)
        + SumOver(out.details, Users)

\* C8: the acknowledgment precedes the read of the role list and every
\* message; the dashboard is sent once, as one follow-up showing page 1;
\* every later page change is an edit of that message and never a new
\* public message.
C8_Lifecycle ==
    /\ [](/\ pc /= "invoked" => out.deferred
          /\ Sent > 0 => out.deferred /\ pc \notin {"invoked", "deferred"}
          /\ out.public <= 1
          /\ Shown => out.public = 1
          /\ out.edits > 0 => out.public = 1
          /\ out.public = 1 => out.plain = 0)
    /\ [][/\ out'.public /= out.public =>
               /\ pc = "constructed" /\ pc' = "rendered"
               /\ out.public = 0 /\ out'.public = 1
               /\ current_page' = 0
               /\ panel'.label[1] = 1
               /\ panel'.embed.rows = PageSlice(roles, 0)
          /\ current_page' /= current_page =>
               /\ pc = "rendered" /\ pc' = "rendered"
               /\ current_page' \in {current_page - 1, current_page + 1}
               /\ out'.edits = out.edits + 1
               /\ out'.public = out.public
               /\ panel'.label[1] = current_page' + 1
               /\ panel'.embed.rows = PageSlice(roles, current_page')
          /\ out'.edits /= out.edits => current_page' /= current_page
         ]_vars

\* the dashboard was sent and its page then changed twice
C8_Witness ==
    /\ pc = "rendered"
    /\ out.public = 1
    /\ out.edits = 2
    /\ current_page = 2

\* C9 as written: the bar has L glyphs, round(L * fraction) filled ones
\* followed by empty ones.
C9_BarRounded ==
    LET L == bar_in.length
        k == RoundOf(L * bar_in.percentage[1], bar_in.percentage[2])
    IN /\ Len(bar_out) = L
       /\ \A i \in 1..Len(bar_out) : bar_out[i] = (IF i <= k THEN FILLED ELSE EMPTY)

\* C9 amended: the bar has exactly L glyphs, k filled followed by L - k
\* empty, where k is L * fraction truncated to an integer (the largest k
\* with k * t <= L * m); the bar of a table row has L = 8.
C9_BarTruncated ==
    LET L == bar_in.length
        m == bar_in.percentage[1]
        t == bar_in.percentage[2]
    IN /\ Len(bar_out) = L
       /\ \A i \in 1..Len(bar_out) :
             /\ bar_out[i] \in {FILLED, EMPTY}
             /\ bar_out[i] = FILLED <=> i * t <= L * m
       /\ bar_in.row => L = 8

\* a row bar for 1 member of 3: 8/3 truncates to 2 filled glyphs
C9_Witness ==
    /\ bar_in.row
    /\ bar_in.percentage = <<1, 3>>
    /\ bar_out = <<FILLED, FILLED, EMPTY, EMPTY, EMPTY, EMPTY, EMPTY, EMPTY>>

\* C10: the selector's entries are the first min(25, N) roles of the
\* highest-rank-first sequence, without "@everyone", never more than 25;
\* once the view exists no step changes them, and no selector choice
\* changes page_index or the controls (a selector choice is a step that
\* sends a detail panel or faults: select_callback does one or the other).
C10_SelectorFixed ==
    /\ [](HasView =>
            /\ Len(options) = Min(SelectLimit, N)
            /\ Len(options) <= 25
            /\ \A i \in 1..Len(options) :
                  /\ options[i] = guild_roles[Len(guild_roles) + 1 - i]
                  /\ Name(options[i]) /= "@everyone")
    /\ [][/\ HasView => options' = options
          /\ (out'.details /= out.details \/ out'.faults /= out.faults) =>
                UNCHANGED <<current_page, prev_disabled, next_disabled,
                            counter_label, total_pages, roles, panel>>
         ]_vars

\* 26 roles: 25 entries, after a page change, a selection and a deletion
C10_Witness ==
    /\ pc = "rendered"
    /\ Len(roles) = 26
    /\ Len(options) = 25
    /\ out.edits >= 1
    /\ \E u \in Users : out.details[u] >= 1
    /\ live /= Range(guild_roles)
====
